---- MODULE Spec2Model ----
(***************************************************************************)
(* A model of src/assets/product-grid-popup.js: the ProductGridPopup       *)
(* widget.  The state is the object's fields (currentProduct,              *)
(* selectedVariant, isLoading), the part of the popup's DOM the handlers   *)
(* read back (active class, selected color button, select values,          *)
(* quantity input, variant error, add-to-cart button), and the network     *)
(* requests in flight together with the async handler waiting on each.     *)
(* JavaScript is single threaded: a handler runs from an event to its      *)
(* next await on the network without interleaving, so every action is one  *)
(* such run.                                                                *)
(***************************************************************************)
EXTENDS Integers, Sequences, FiniteSets, Bags, TLC

\* null, undefined, '' and "key not set" (all falsy in the source)
None == "none"

-----------------------------------------------------------------------------
(* Bounds of the model *)

\* add-to-cart handler chains (handleAddToCart and the updateCartCount it
\* leaves behind) that may be alive at once
MaxFlows == 2
\* GET /products/<id>.js requests of loadProductData that may be in flight
MaxLoads == 2
\* longest variant list the matcher is tried on
MaxVariants == 3

(* Program constants *)
MinQty == 1
MaxQty == 10
DefaultQty == 1
JacketQty == 1

-----------------------------------------------------------------------------
(* Products and variants *)

Variant(id, o1, o2, o3, av) ==
  [id |-> id, option1 |-> o1, option2 |-> o2, option3 |-> o3, available |-> av]

\* selectedVariant = null (or undefined, when product.variants is empty)
NullVariant == Variant(0, None, None, None, FALSE)

IsNull(variant) == variant.id = 0

\* currentProduct = null
NoProduct == [id |-> None, variants |-> <<>>]

\* The storefront's products as GET /products/<id>.js or the page's embedded
\* JSON delivers them.  "shirt" has Black/Medium in option1/option2 and lacks
\* the White/Medium combination; "tee" has the two values in the other slots,
\* a third option, and a first variant that is sold out; "cap" has a single
\* variant and therefore no choosers; "draft" has no variant at all, so that
\* product.variants[0] is undefined.
Catalogue ==
  [shirt |-> [id |-> "shirt",
              variants |-> << Variant(11, "Black", "Medium", None, TRUE),
                              Variant(12, "Black", "Large", None, FALSE),
                              Variant(13, "White", "Large", None, TRUE) >>],
   tee   |-> [id |-> "tee",
              variants |-> << Variant(21, "Small", "Black", "Wool", FALSE),
                              Variant(22, "Medium", "Black", "Wool", TRUE) >>],
   cap   |-> [id |-> "cap",
              variants |-> << Variant(31, None, None, None, TRUE) >>],
   draft |-> [id |-> "draft", variants |-> << >>]]

ProductIds == DOMAIN Catalogue

\* products whose data sits in a <script data-product-variants="id"> tag
EmbeddedIds == {"cap", "draft"}

\* variants[0] of the fixed secondary product
JacketVariantId == 41

-----------------------------------------------------------------------------
VARIABLES
  popupActive,      \* this.popup.classList.contains('active')
  currentProduct,   \* this.currentProduct
  selectedVariant,  \* this.selectedVariant
  isLoading,        \* this.isLoading
  loads,            \* product ids of the GET /products/<id>.js in flight
  selectedColor,    \* data-value of .variant-color-btn.selected, or None
  selectValues,     \* value of the option2 and option3 <select>, or None
  qty,              \* .qty-input value
  variantError,     \* #variant-error is displayed
  btnDisabled,      \* #popup-add-cart-btn disabled
  btnLabel,         \* .btn-text of the button
  flows,            \* the add-to-cart handler chains and what each awaits
  lastOp,           \* the handler that ran last and what it showed and emitted
  mProduct,         \* matcher check: the product under test
  mOptions,         \* matcher check: the SelectedOptions under test
  mResult           \* matcher check: whether findMatchingVariant was called,
                    \* and the variant it returned

uiVars == << popupActive, currentProduct, selectedVariant, isLoading, loads,
             selectedColor, selectValues, qty, variantError, btnDisabled,
             btnLabel, flows, lastOp >>
mVars == << mProduct, mOptions, mResult >>
vars == << popupActive, currentProduct, selectedVariant, isLoading, loads,
           selectedColor, selectValues, qty, variantError, btnDisabled,
           btnLabel, flows, lastOp, mProduct, mOptions, mResult >>

-----------------------------------------------------------------------------
(* Pure functions *)

Max(a, b) == IF a > b THEN a ELSE b
Min(a, b) == IF a < b THEN a ELSE b

\* parseInt(qtyInput.value) || 1: the input holds the decimal text of an
\* integer the code wrote; 0 (and NaN) fall back to 1
ParseQty(v) == IF v = 0 THEN DefaultQty ELSE v

\* updateQuantity's new value
\* faulty variant: the Math.min(10, ...) is missing
ClampQtyNoUpper(q, change) == Max(MinQty, ParseQty(q) + change)
\* updateQuantity's new value, as written
ClampQty(q, change) == Max(MinQty, Min(MaxQty, ParseQty(q) + change))

\* [...new Set(product.variants.map(v => v[key]).filter(Boolean))]
OptionValues(product, key) ==
  { product.variants[i][key] : i \in 1..Len(product.variants) } \ {None}

\* setupVariants: the values a chooser for key offers (none when the product
\* has at most one variant)
ChooserValues(product, key) ==
  IF Len(product.variants) <= 1 THEN {} ELSE OptionValues(product, key)

\* the callback of Array.find in findMatchingVariant
\* faulty variant: the three tests joined by || instead of &&
MatchesAnySlot(variant, options) ==
  \/ (options.option1 = None \/ variant.option1 = options.option1)
  \/ (options.option2 = None \/ variant.option2 = options.option2)
  \/ (options.option3 = None \/ variant.option3 = options.option3)
\* the callback as written
Matches(variant, options) ==
  /\ (options.option1 = None \/ variant.option1 = options.option1)
  /\ (options.option2 = None \/ variant.option2 = options.option2)
  /\ (options.option3 = None \/ variant.option3 = options.option3)

\* Array.prototype.find: the first element that satisfies the callback
\* faulty variant: the last element that satisfies the callback
FindLast(variants, options) ==
  LET hits == { i \in 1..Len(variants) : Matches(variants[i], options) }
  IN  IF hits = {} THEN NullVariant
      ELSE variants[CHOOSE i \in hits : \A j \in hits : j <= i]
\* Array.prototype.find
Find(variants, options) ==
  LET hits == { i \in 1..Len(variants) : Matches(variants[i], options) }
  IN  IF hits = {} THEN NullVariant
      ELSE variants[CHOOSE i \in hits : \A j \in hits : i <= j]

FindMatchingVariant(product, options) ==
  IF product.id = None THEN NullVariant ELSE Find(product.variants, options)

\* getSelectedOptions over a DOM with the given color button selected and the
\* given select values: the color button's data-option is option1, each select
\* contributes its data-option when its value is not ''
SelectedOptions(color, selects) ==
  [option1 |-> color, option2 |-> selects.option2, option3 |-> selects.option3]

\* the condition of checkSpecialConditions
PromotionApplies(options) ==
  \/ (options.option1 = "Black" /\ options.option2 = "Medium")
  \/ (options.option2 = "Black" /\ options.option1 = "Medium")

\* the guard of handleAddToCart, negated
\* faulty variant: the available flag is not tested
CanAddAnyVariant(variant) == ~IsNull(variant)
\* the guard as written, negated
CanAddToCart(variant) == ~IsNull(variant) /\ variant.available

\* updateAddToCartButton
ButtonDisabledFor(variant) == ~(~IsNull(variant) /\ variant.available)
ButtonLabelFor(variant) ==
  IF ~IsNull(variant) /\ variant.available THEN "ADD TO CART"
  ELSE IF ~IsNull(variant) THEN "SOLD OUT" ELSE "UNAVAILABLE"

\* product.variants[0]
FirstVariant(product) ==
  IF Len(product.variants) = 0 THEN NullVariant ELSE product.variants[1]

NoSelects == [option2 |-> None, option3 |-> None]

-----------------------------------------------------------------------------
(* Add-to-cart handler chains *)

\* pc: "primary"  POST /cart/add.js {id, quantity} of handleAddToCart in flight
\*     "secFetch" GET /products/soft-winter-jacket.js in flight
\*     "secAdd"   POST /cart/add.js {id, quantity} of addSoftWinterJacket in flight
\*     "refresh"  handleAddToCart has returned; GET /cart.js in flight
\* A request's body is not kept with the flow: nothing in the page reads it
\* after it is sent, and lastOp.sent holds it in the state that sends it.
\* promoAtSubmit records, for as long as the primary POST is in flight,
\* whether the selection at submit time held Black and Medium.
Flow(pc, promoAtSubmit) == [pc |-> pc, promoAtSubmit |-> promoAtSubmit]

\* every position a live handler chain can be in
FlowStates ==
  { Flow("primary", promo) : promo \in BOOLEAN } \cup
  { Flow(pc, FALSE) : pc \in {"secFetch", "secAdd", "refresh"} }

\* the handler chains alive (a bag: two chains can be in the same position)
Alive(f) == BagIn(f, flows)
Started(f) == flows (+) SetToBag({f})
Ended(f) == flows (-) SetToBag({f})
Moved(f, g) == (flows (-) SetToBag({f})) (+) SetToBag({g})

\* the number of live chains whose position is in pcs
InFlight(pcs) ==
  BagCardinality([f \in { g \in BagToSet(flows) : g.pc \in pcs } |-> flows[f]])

\* the body of a POST /cart/add.js; NoBody when the handler sent none
Body(id, quantity) == [id |-> id, quantity |-> quantity]
NoBody == Body(0, 0)

\* lastOp: what the handler step that ran last let the outside see: how a
\* call was answered (op), the notification it showed (note: None, "success"
\* or "error"), the number of cart:updated events it dispatched, and the body
\* of the POST /cart/add.js it sent.  op is
\*   "openIgnored"    openProductPopup returned on the busy flag
\*   "loadFailed"     openProductPopup caught a failed load
\*   "close"          closePopup ran for the close button, the overlay or Escape
\*   "submitRejected" handleAddToCart returned on its guard
\*   "submit"         handleAddToCart passed its guard and sent the primary POST
\*   "primaryOk"      the primary POST succeeded and addSoftWinterJacket was called
\*   "secFetched"     addSoftWinterJacket sent the secondary POST
\*   "primaryFailed"  handleAddToCart returned through catch
\*   "added"          handleAddToCart returned through the end of try
\* and None for a step that shows, emits and sends nothing (Quiet).
\* For the step that handles the answer to a primary POST, promoAtSubmit is
\* that submit's promoAtSubmit and secAttempts the number of
\* addSoftWinterJacket calls the step made; for the step in which
\* handleAddToCart returns after its secondary step, secResult says how that
\* step ended: "fetchFailed", "notOk", "noVariants", "addFailed" or "added".
Op(name, note, emitted, sent) ==
  [op |-> name, note |-> note, emitted |-> emitted, sent |-> sent,
   promoAtSubmit |-> FALSE, secAttempts |-> 0, secResult |-> None]
Quiet == Op(None, None, 0, NoBody)

-----------------------------------------------------------------------------
\* the widget after its constructor: createPopupHTML has inserted the popup
\* markup (button enabled and labelled ADD TO CART, quantity 1, error hidden,
\* no choosers), nothing is loaded and nothing is in flight
UiInit ==
  /\ popupActive = FALSE
  /\ currentProduct = NoProduct
  /\ selectedVariant = NullVariant
  /\ isLoading = FALSE
  /\ loads = << >>
  /\ selectedColor = None
  /\ selectValues = NoSelects
  /\ qty = 1
  /\ variantError = FALSE
  /\ btnDisabled = FALSE
  /\ btnLabel = "ADD TO CART"
  /\ flows = EmptyBag
  /\ lastOp = Quiet

NotCalled == [called |-> FALSE, variant |-> NullVariant]

Init ==
  /\ UiInit
  /\ mProduct = NoProduct
  /\ mOptions = [option1 |-> None, option2 |-> None, option3 |-> None]
  /\ mResult = NotCalled

-----------------------------------------------------------------------------
(* Effects shared by several handlers *)

\* updateAddToCartButton, with this.selectedVariant = variant
UpdateAddToCartButton(variant) ==
  /\ btnDisabled' = ButtonDisabledFor(variant)
  /\ btnLabel' = ButtonLabelFor(variant)

\* resetPopupForm
\* faulty variant: the quantity input is not reset
ResetPopupFormKeepsQuantity ==
  /\ selectedColor' = None
  /\ selectValues' = NoSelects
  /\ qty' = qty
  /\ variantError' = FALSE
  /\ selectedVariant' = NullVariant
\* resetPopupForm as written
ResetPopupForm ==
  /\ selectedColor' = None
  /\ selectValues' = NoSelects
  /\ qty' = DefaultQty
  /\ variantError' = FALSE
  /\ selectedVariant' = NullVariant

\* closePopup (this.popup is set by createPopupHTML)
ClosePopup ==
  /\ popupActive' = FALSE
  /\ ResetPopupForm

\* the end of loadProductData (currentProduct, selectedVariant, populatePopup:
\* setupVariants empties the container and builds fresh, unselected choosers),
\* then showPopup and the finally block of openProductPopup
ShowProduct(product) ==
  /\ currentProduct' = product
  /\ selectedVariant' = FirstVariant(product)
  /\ selectedColor' = None
  /\ selectValues' = NoSelects
  /\ popupActive' = TRUE
  /\ isLoading' = FALSE

\* handleVariantChange, reading the DOM as options
HandleVariantChange(options) ==
  LET matchingVariant == FindMatchingVariant(currentProduct, options)
  IN  /\ selectedVariant' = matchingVariant
      /\ variantError' = IsNull(matchingVariant)
      /\ UpdateAddToCartButton(matchingVariant)

RemoveAt(seq, k) == [i \in 1..(Len(seq) - 1) |-> IF i < k THEN seq[i] ELSE seq[i + 1]]

-----------------------------------------------------------------------------
(* openProductPopup / loadProductData *)

\* the busy-flag test of openProductPopup, negated
\* faulty variant: the busy flag is not tested
OpenAlwaysAccepted == TRUE
\* the test as written, negated
OpenAccepted == ~isLoading

\* a click on a [data-product-trigger] whose product data is embedded in the
\* page: loadProductData does not wait on the network, and the rest of
\* openProductPopup runs in the microtask that follows
OpenEmbedded(p) ==
  /\ OpenAccepted
  /\ p \in EmbeddedIds
  /\ ShowProduct(Catalogue[p])
  /\ lastOp' = Quiet
  /\ UNCHANGED << loads, qty, variantError, btnDisabled, btnLabel, flows >>
  /\ UNCHANGED mVars

\* a click on a trigger whose product has to be fetched
OpenFetch(p) ==
  /\ OpenAccepted
  /\ p \notin EmbeddedIds
  /\ Len(loads) < MaxLoads
  /\ isLoading' = TRUE
  /\ loads' = Append(loads, p)
  /\ lastOp' = Quiet
  /\ UNCHANGED << popupActive, currentProduct, selectedVariant, selectedColor,
                  selectValues, qty, variantError, btnDisabled, btnLabel, flows >>
  /\ UNCHANGED mVars

\* a click on a trigger while isLoading: openProductPopup returns at once
OpenIgnored ==
  /\ ~OpenAccepted
  /\ lastOp' = Op("openIgnored", None, 0, NoBody)
  /\ UNCHANGED << popupActive, currentProduct, selectedVariant, isLoading, loads,
                  selectedColor, selectValues, qty, variantError, btnDisabled,
                  btnLabel, flows >>
  /\ UNCHANGED mVars

\* the product fetch answers 2xx with the product's JSON
LoadSucceeded(k) ==
  /\ k \in 1..Len(loads)
  /\ ShowProduct(Catalogue[loads[k]])
  /\ loads' = RemoveAt(loads, k)
  /\ lastOp' = Quiet
  /\ UNCHANGED << qty, variantError, btnDisabled, btnLabel, flows >>
  /\ UNCHANGED mVars

\* the product fetch rejects, answers non-2xx, or its body is not JSON:
\* catch (showErrorState) and finally
LoadFailed(k) ==
  /\ k \in 1..Len(loads)
  /\ isLoading' = FALSE
  /\ loads' = RemoveAt(loads, k)
  /\ lastOp' = Op("loadFailed", "error", 0, NoBody)
  /\ UNCHANGED << popupActive, currentProduct, selectedVariant, selectedColor,
                  selectValues, qty, variantError, btnDisabled, btnLabel, flows >>
  /\ UNCHANGED mVars

-----------------------------------------------------------------------------
(* The shopper's events inside the popup.  Its controls are part of the
   overlay #product-popup, which showPopup and closePopup show and hide
   through the class active: they take events while popupActive holds.  The
   [data-product-trigger] elements are outside it and take clicks always. *)

\* a click on a color button: handleColorSelection
SelectColor(v) ==
  /\ popupActive
  /\ v \in ChooserValues(currentProduct, "option1")
  /\ selectedColor' = v
  /\ HandleVariantChange(SelectedOptions(v, selectValues))
  /\ lastOp' = Quiet
  /\ UNCHANGED << popupActive, currentProduct, isLoading, loads, selectValues,
                  qty, flows >>
  /\ UNCHANGED mVars

\* a change event of the option2 or option3 select (v = None: its placeholder)
ChangeSelect(key, v) ==
  /\ popupActive
  /\ key \in {"option2", "option3"}
  /\ v \in ChooserValues(currentProduct, key) \cup {None}
  /\ ChooserValues(currentProduct, key) # {}
  /\ v # selectValues[key]
  /\ selectValues' = [selectValues EXCEPT ![key] = v]
  /\ HandleVariantChange(SelectedOptions(selectedColor, selectValues'))
  /\ lastOp' = Quiet
  /\ UNCHANGED << popupActive, currentProduct, isLoading, loads, selectedColor,
                  qty, flows >>
  /\ UNCHANGED mVars

\* a click on .qty-decrease (change = -1) or .qty-increase (change = 1)
UpdateQuantity(change) ==
  /\ popupActive
  /\ change \in {-1, 1}
  /\ qty' = ClampQty(qty, change)
  /\ lastOp' = Quiet
  /\ UNCHANGED << popupActive, currentProduct, selectedVariant, isLoading, loads,
                  selectedColor, selectValues, variantError, btnDisabled,
                  btnLabel, flows >>
  /\ UNCHANGED mVars

\* the close button, a click on the overlay, or Escape
UserClose ==
  /\ popupActive
  /\ ClosePopup
  /\ lastOp' = Op("close", None, 0, NoBody)
  /\ UNCHANGED << currentProduct, isLoading, loads, btnDisabled, btnLabel, flows >>
  /\ UNCHANGED mVars

-----------------------------------------------------------------------------
(* handleAddToCart and the requests it waits on *)

\* the form's submit event: the submit button is its only way in, and a
\* disabled button submits nothing
SubmitPossible == popupActive /\ ~btnDisabled

\* submit with no variant, or one that is not available
SubmitRejected ==
  /\ SubmitPossible
  /\ ~CanAddToCart(selectedVariant)
  /\ variantError' = TRUE
  /\ lastOp' = Op("submitRejected", None, 0, NoBody)
  /\ UNCHANGED << popupActive, currentProduct, selectedVariant, isLoading, loads,
                  selectedColor, selectValues, qty, btnDisabled, btnLabel, flows >>
  /\ UNCHANGED mVars

\* submit that passes the guard: setLoadingState(true), then addToCart sends
\* POST /cart/add.js {id: selectedVariant.id, quantity}
SubmitAccepted ==
  /\ SubmitPossible
  /\ CanAddToCart(selectedVariant)
  /\ BagCardinality(flows) < MaxFlows
  /\ flows' = Started(Flow("primary",
                           PromotionApplies(SelectedOptions(selectedColor, selectValues))))
  /\ lastOp' = Op("submit", None, 0, Body(selectedVariant.id, ParseQty(qty)))
  /\ btnDisabled' = TRUE
  /\ btnLabel' = "ADDING..."
  /\ UNCHANGED << popupActive, currentProduct, selectedVariant, isLoading, loads,
                  selectedColor, selectValues, qty, variantError >>
  /\ UNCHANGED mVars

\* the tail of handleAddToCart's try block and its finally block:
\* showSuccessMessage, closePopup, triggerCartUpdate (the cart:updated event
\* and updateCartCount's GET /cart.js), setLoadingState(false)
FinishSuccess(f, secResult) ==
  /\ ClosePopup
  /\ UpdateAddToCartButton(NullVariant)
  /\ flows' = Moved(f, Flow("refresh", FALSE))
  /\ lastOp' = [Op("added", "success", 1, NoBody) EXCEPT
                  !.promoAtSubmit = f.promoAtSubmit, !.secResult = secResult]
  /\ UNCHANGED << currentProduct, isLoading, loads >>
  /\ UNCHANGED mVars

\* the primary POST rejects or answers non-2xx: catch (showErrorMessage) and
\* finally (setLoadingState(false))
\* faulty variant: triggerCartUpdate runs on the failure path too
PrimaryFailedStillUpdatesCart(f) ==
  /\ Alive(f)
  /\ f.pc = "primary"
  /\ flows' = Moved(f, Flow("refresh", FALSE))
  /\ UpdateAddToCartButton(selectedVariant)
  /\ lastOp' = [Op("primaryFailed", "error", 1, NoBody) EXCEPT
                  !.promoAtSubmit = f.promoAtSubmit]
  /\ UNCHANGED << popupActive, currentProduct, selectedVariant, isLoading, loads,
                  selectedColor, selectValues, qty, variantError >>
  /\ UNCHANGED mVars
\* the failure path as written
PrimaryFailed(f) ==
  /\ Alive(f)
  /\ f.pc = "primary"
  /\ flows' = Ended(f)
  /\ UpdateAddToCartButton(selectedVariant)
  /\ lastOp' = [Op("primaryFailed", "error", 0, NoBody) EXCEPT
                  !.promoAtSubmit = f.promoAtSubmit]
  /\ UNCHANGED << popupActive, currentProduct, selectedVariant, isLoading, loads,
                  selectedColor, selectValues, qty, variantError >>
  /\ UNCHANGED mVars

\* the primary POST answers 2xx: checkSpecialConditions reads the DOM now
PrimarySucceeded(f) ==
  /\ Alive(f)
  /\ f.pc = "primary"
  /\ IF PromotionApplies(SelectedOptions(selectedColor, selectValues))
     THEN \* addSoftWinterJacket sends GET /products/soft-winter-jacket.js
          /\ flows' = Moved(f, Flow("secFetch", FALSE))
          /\ lastOp' = [Op("primaryOk", None, 0, NoBody) EXCEPT
                          !.promoAtSubmit = f.promoAtSubmit, !.secAttempts = 1]
          /\ UNCHANGED << popupActive, currentProduct, selectedVariant, isLoading,
                          loads, selectedColor, selectValues, qty, variantError,
                          btnDisabled, btnLabel >>
          /\ UNCHANGED mVars
     ELSE FinishSuccess(f, None)

\* the secondary product's fetch answers 2xx with variants[0]: addToCart
\* sends POST /cart/add.js {id: jacket.variants[0].id, quantity: 1}
SecFetchSucceeded(f) ==
  /\ Alive(f)
  /\ f.pc = "secFetch"
  /\ flows' = Moved(f, Flow("secAdd", FALSE))
  /\ lastOp' = Op("secFetched", None, 0, Body(JacketVariantId, JacketQty))
  /\ UNCHANGED << popupActive, currentProduct, selectedVariant, isLoading, loads,
                  selectedColor, selectValues, qty, variantError, btnDisabled,
                  btnLabel >>
  /\ UNCHANGED mVars

\* the catch blocks of addSoftWinterJacket and checkSpecialConditions: an
\* exception of the secondary step is logged, and handleAddToCart goes on
\* faulty variant: the exception reaches the catch block of handleAddToCart
SecondaryErrorPropagates(f, how) ==
  /\ flows' = Ended(f)
  /\ UpdateAddToCartButton(selectedVariant)
  /\ lastOp' = [Op("primaryFailed", "error", 0, NoBody) EXCEPT !.secResult = how]
  /\ UNCHANGED << popupActive, currentProduct, selectedVariant, isLoading, loads,
                  selectedColor, selectValues, qty, variantError >>
  /\ UNCHANGED mVars
\* the catch blocks as written
SwallowSecondaryError(f, how) == FinishSuccess(f, how)

\* the secondary product's fetch rejects, or its body is not JSON
SecFetchThrew(f) ==
  /\ Alive(f)
  /\ f.pc = "secFetch"
  /\ SwallowSecondaryError(f, "fetchFailed")

\* the secondary product's fetch answers non-2xx ("notOk"), or delivers a
\* product without variants ("noVariants"): addSoftWinterJacket returns
SecFetchUnusable(f, how) ==
  /\ Alive(f)
  /\ f.pc = "secFetch"
  /\ how \in {"notOk", "noVariants"}
  /\ FinishSuccess(f, how)

\* the secondary POST answers 2xx
SecAddSucceeded(f) ==
  /\ Alive(f)
  /\ f.pc = "secAdd"
  /\ FinishSuccess(f, "added")

\* the secondary POST rejects or answers non-2xx: addToCart throws
SecAddFailed(f) ==
  /\ Alive(f)
  /\ f.pc = "secAdd"
  /\ SwallowSecondaryError(f, "addFailed")

\* GET /cart.js answers or fails: the .cart-count elements are rewritten, or
\* the failure is logged
RefreshAnswered(f) ==
  /\ Alive(f)
  /\ f.pc = "refresh"
  /\ flows' = Ended(f)
  /\ lastOp' = Quiet
  /\ UNCHANGED << popupActive, currentProduct, selectedVariant, isLoading, loads,
                  selectedColor, selectValues, qty, variantError, btnDisabled,
                  btnLabel >>
  /\ UNCHANGED mVars

-----------------------------------------------------------------------------
Next ==
  \/ \E p \in ProductIds : OpenEmbedded(p)
  \/ \E p \in ProductIds : OpenFetch(p)
  \/ OpenIgnored
  \/ \E k \in 1..MaxLoads : LoadSucceeded(k)
  \/ \E k \in 1..MaxLoads : LoadFailed(k)
  \/ \E v \in {"Black", "White", "Small", "Medium"} : SelectColor(v)
  \/ \E key \in {"option2", "option3"} :
       \E v \in {None, "Medium", "Large", "Black", "Wool"} : ChangeSelect(key, v)
  \/ \E change \in {-1, 1} : UpdateQuantity(change)
  \/ UserClose
  \/ SubmitRejected
  \/ SubmitAccepted
  \/ \E f \in FlowStates : PrimaryFailed(f)
  \/ \E f \in FlowStates : PrimarySucceeded(f)
  \/ \E f \in FlowStates : SecFetchSucceeded(f)
  \/ \E f \in FlowStates : SecFetchThrew(f)
  \/ \E f \in FlowStates : \E how \in {"notOk", "noVariants"} : SecFetchUnusable(f, how)
  \/ \E f \in FlowStates : SecAddSucceeded(f)
  \/ \E f \in FlowStates : SecAddFailed(f)
  \/ \E f \in FlowStates : RefreshAnswered(f)

Spec == Init /\ [][Next]_vars

\* the product loads answer in the end: fetch() settles, by a response or by
\* a network error
SpecLive == Spec /\ WF_vars(\E k \in 1..MaxLoads : LoadSucceeded(k) \/ LoadFailed(k))

-----------------------------------------------------------------------------
(* Claims about the popup, checked under Spec (C9 under SpecLive) *)

\* the add-to-cart requests in flight, by kind
Primaries == InFlight({"primary"})
Secondaries == InFlight({"secFetch", "secAdd"})
Refreshes == InFlight({"refresh"})
CartAdds == InFlight({"primary", "secAdd"})

\* C1: a submit made while selectedVariant is null or not available is
\* answered by the variant error alone: it sends no POST /cart/add.js, starts
\* no handler chain and shows no notification.
C1_NoRequestWithoutAvailableVariant ==
  [][ ( /\ lastOp'.op \in {"submit", "submitRejected"}
        /\ (IsNull(selectedVariant) \/ ~selectedVariant.available) )
      => ( /\ lastOp'.op = "submitRejected"
           /\ lastOp'.sent = NoBody
           /\ lastOp'.note = None
           /\ flows' = flows
           /\ variantError' ) ]_vars

\* a submit of a sold-out variant, made after an earlier add went through,
\* has been turned down
C1_Witness ==
  /\ lastOp.op = "submitRejected"
  /\ ~IsNull(selectedVariant) /\ ~selectedVariant.available
  /\ variantError
  /\ Refreshes = 1

\* C3: the quantity is within [1,10] in every state, a click on + or - leaves
\* it at max(1, min(10, old + change)), and the quantity in the body of every
\* primary POST is within [1,10].
C3_QuantityClamped ==
  /\ [](qty \in 1..10)
  /\ [](lastOp.op = "submit" => lastOp.sent.quantity \in 1..10)
  /\ [][ \A change \in {-1, 1} :
           UpdateQuantity(change) =>
             qty' = (IF 10 < qty + change THEN 10
                     ELSE IF qty + change < 1 THEN 1 ELSE qty + change) ]_vars

\* a submit has sent the largest quantity
C3_Witness ==
  /\ lastOp.op = "submit"
  /\ lastOp.sent.quantity = 10
  /\ qty = 10

\* C4: the step that handles a successful answer to a primary POST calls
\* addSoftWinterJacket exactly once if the selection at submit time held Black
\* and Medium in option1 and option2, and not at all otherwise; the step that
\* handles a failed primary POST does not call it.  (No other step calls it.)
C4_OneSecondaryAttemptPerPromoSubmit ==
  /\ (lastOp.op = "primaryOk" \/ (lastOp.op = "added" /\ lastOp.secResult = None)) =>
       lastOp.secAttempts = (IF lastOp.promoAtSubmit THEN 1 ELSE 0)
  /\ lastOp.op = "primaryFailed" => lastOp.secAttempts = 0

\* C5: a handleAddToCart that returns after its secondary step ran (so its
\* primary add had succeeded) returns with the success notification, the popup
\* closed and the cart:updated event dispatched, however that step ended.
C5_SecondaryNeverFailsPrimary ==
  lastOp.secResult # None =>
    /\ lastOp.op = "added"
    /\ lastOp.note = "success"
    /\ lastOp.emitted = 1
    /\ ~popupActive

\* the secondary POST failed and the submit is reported as a success
C5_Witness ==
  /\ lastOp.op = "added"
  /\ lastOp.secResult = "addFailed"
  /\ lastOp.note = "success"
  /\ lastOp.emitted = 1
  /\ ~popupActive

\* C6: after closePopup (run for the shopper, or at the end of a successful
\* add) no color button is selected, every select is empty, the quantity is
\* 1, the variant error is hidden, selectedVariant is null and the popup is
\* not active.
C6_CloseResetsForm ==
  lastOp.op \in {"close", "added"} =>
    /\ ~popupActive
    /\ selectedColor = None
    /\ selectValues.option2 = None /\ selectValues.option3 = None
    /\ qty = 1
    /\ ~variantError
    /\ IsNull(selectedVariant)

\* closePopup has run for the shopper on a product with all three choosers,
\* while an earlier submit was still in flight
C6_Witness ==
  /\ lastOp.op = "close"
  /\ currentProduct.id = "tee"
  /\ Primaries = 1
  /\ ~popupActive
  /\ qty = 1
  /\ IsNull(selectedVariant)

\* C7: an accepted submit puts exactly one primary POST in flight, with body
\* {id: selectedVariant.id, quantity: the quantity shown}; when a primary POST
\* fails the error notification is shown, no cart:updated event is dispatched,
\* no GET /cart.js is sent, and popup, selections and quantity stay as they
\* are; a GET /cart.js is sent only by a handler that returns successfully,
\* one at a time and together with exactly one cart:updated event.
C7_OnePrimaryRequestAndItsOutcome ==
  [][ /\ lastOp'.op = "submit" =>
           /\ Primaries' = Primaries + 1
           /\ lastOp'.sent = Body(selectedVariant.id, qty)
      /\ Primaries' > Primaries =>
           /\ lastOp'.op = "submit"
           /\ Primaries' = Primaries + 1
      /\ (Primaries' < Primaries /\ Secondaries' = Secondaries /\ Refreshes' = Refreshes) =>
           /\ lastOp'.note = "error"
           /\ lastOp'.emitted = 0
           /\ UNCHANGED << popupActive, selectedColor, selectValues, qty >>
      /\ lastOp'.note = "error" => (lastOp'.emitted = 0 /\ Refreshes' <= Refreshes)
      /\ Refreshes' > Refreshes =>
           /\ Refreshes' = Refreshes + 1
           /\ lastOp'.emitted = 1
           /\ lastOp'.note = "success"
      /\ lastOp'.emitted = 1 => Refreshes' = Refreshes + 1 ]_vars

\* a primary POST has failed while the popup shows a selection and a quantity
\* above 1
C7_Witness ==
  /\ lastOp.op = "primaryFailed"
  /\ lastOp.note = "error"
  /\ popupActive
  /\ selectedColor = "Black"
  /\ qty = 2
  /\ Refreshes = 0

\* C8: at no time are two POST /cart/add.js requests in flight together.
C8_CartAddsNeverOverlap == CartAdds <= 1

\* C9: at most one product load is in flight, and isLoading says whether one
\* is; while isLoading is true no step starts a load, and an openProductPopup
\* call leaves loads, currentProduct, selectedVariant and isLoading as they
\* are; a load that ends, well or badly, sets isLoading to false; and
\* isLoading does not stay true for ever.
C9_OneLoadAtATime ==
  /\ [](Len(loads) <= 1 /\ (isLoading <=> Len(loads) = 1))
  /\ [][ /\ isLoading => Len(loads') <= Len(loads)
         /\ (isLoading /\ lastOp'.op = "openIgnored") =>
              UNCHANGED << loads, currentProduct, selectedVariant, isLoading >>
         /\ Len(loads') < Len(loads) => ~isLoading' ]_vars
  /\ (isLoading ~> ~isLoading)

\* an openProductPopup call has returned on the busy flag while a product is
\* shown and another is being loaded
C9_Witness ==
  /\ lastOp.op = "openIgnored"
  /\ isLoading
  /\ Len(loads) = 1
  /\ popupActive
  /\ currentProduct.id # loads[1]

-----------------------------------------------------------------------------
(* findMatchingVariant on its own: every variant list of up to MaxVariants
   variants over a few option values (or no product at all), and every
   SelectedOptions with 0 to 3 keys set *)

OptionTuples ==
  [option1 : {None, "Black", "Medium"},
   option2 : {None, "Medium"},
   option3 : {None, "Wool"}]

\* a product whose i-th variant has id i and the i-th tuple as its options
ProductOf(tuples) ==
  [id |-> "item",
   variants |-> [i \in 1..Len(tuples) |->
                   Variant(i, tuples[i].option1, tuples[i].option2,
                           tuples[i].option3, TRUE)]]

MatchInit ==
  /\ UiInit
  /\ mProduct \in {NoProduct} \cup
                  { ProductOf(t) : t \in UNION { [1..n -> OptionTuples] : n \in 0..MaxVariants } }
  /\ mOptions \in OptionTuples
  /\ mResult = NotCalled

\* this.currentProduct = mProduct; findMatchingVariant(mOptions)
MatchCall ==
  /\ ~mResult.called
  /\ mResult' = [called |-> TRUE, variant |-> FindMatchingVariant(mProduct, mOptions)]
  /\ UNCHANGED << mProduct, mOptions >>
  /\ UNCHANGED uiVars

MatchNext == MatchCall

SpecMatch == MatchInit /\ [][MatchNext]_vars

-----------------------------------------------------------------------------
(* Claims about findMatchingVariant, checked under SpecMatch *)

KeySet == {"option1", "option2", "option3"}

\* the option keys present on the product's variants
KeysPresent(product) == { k \in KeySet : OptionValues(product, k) # {} }

\* options sets a value for every key present on the product's variants
FullySpecifies(options, product) == \A k \in KeysPresent(product) : options[k] # None

\* variant has exactly the combination of option values options holds
HasCombination(variant, options) == \A k \in KeySet : variant[k] = options[k]

\* the positions of the variants that equal options on every key it sets
Qualifying(product, options) ==
  { i \in 1..Len(product.variants) :
      \A k \in KeySet : options[k] # None => product.variants[i][k] = options[k] }

\* C2: for a loaded product and SelectedOptions that set every option key
\* present on its variants, findMatchingVariant returns a variant if and only
\* if some variant of the list has exactly that combination of option values,
\* and the variant returned is of the list and has that combination.
C2_FullySpecifiedMatch ==
  (mResult.called /\ mProduct.id # None /\ FullySpecifies(mOptions, mProduct)) =>
    LET r == mResult.variant
        n == Len(mProduct.variants)
    IN  /\ ~IsNull(r) <=> \E i \in 1..n : HasCombination(mProduct.variants[i], mOptions)
        /\ ~IsNull(r) => /\ \E i \in 1..n : r = mProduct.variants[i]
                         /\ HasCombination(r, mOptions)

\* a fully specified selection over a product with two option keys and
\* several variants, answered with the variant of that combination
C2_Witness ==
  /\ mResult.called
  /\ Len(mProduct.variants) = 3
  /\ Cardinality(KeysPresent(mProduct)) = 2
  /\ FullySpecifies(mOptions, mProduct)
  /\ mResult.variant.id = 3
  /\ HasCombination(mResult.variant, mOptions)

\* C10: whatever keys are set, a returned variant equals the selected value on
\* every set key and is the first such variant in list order; no variant is
\* returned exactly when none qualifies or no product is loaded.
C10_FirstWildcardMatch ==
  mResult.called =>
    LET r == mResult.variant
        q == Qualifying(mProduct, mOptions)
    IN  /\ ~IsNull(r) => \E i \in q : /\ r = mProduct.variants[i]
                                       /\ \A j \in q : i <= j
        /\ IsNull(r) <=> (q = {} \/ mProduct.id = None)

\* one key set, two keys left open, several variants qualify, and the one
\* returned is the first of them although it is not the first of the list
C10_Witness ==
  /\ mResult.called
  /\ mOptions.option1 # None /\ mOptions.option2 = None /\ mOptions.option3 = None
  /\ Qualifying(mProduct, mOptions) = {2, 3}
  /\ mResult.variant.id = 2
  /\ mProduct.variants[2].option2 # mProduct.variants[3].option2

-----------------------------------------------------------------------------
(* Claims about the button and the selection behind a submit, checked under
   Spec *)

\* a handleAddToCart is between its setLoadingState(true) and its finally
Submitting == InFlight({"primary", "secFetch", "secAdd"}) > 0

\* C11: whenever the popup is open and no submit is in flight, the button is
\* enabled and labelled ADD TO CART if selectedVariant is set and available,
\* disabled and labelled SOLD OUT if it is set and not available, and disabled
\* and labelled UNAVAILABLE if it is null.
C11_ButtonFollowsSelectedVariant ==
  (popupActive /\ ~Submitting) =>
    IF ~IsNull(selectedVariant) /\ selectedVariant.available
      THEN ~btnDisabled /\ btnLabel = "ADD TO CART"
      ELSE /\ btnDisabled
           /\ btnLabel = (IF IsNull(selectedVariant) THEN "UNAVAILABLE" ELSE "SOLD OUT")

\* the option keys the open popup shows a chooser for
OfferedKeys == { k \in KeySet : ChooserValues(currentProduct, k) # {} }

\* the shopper has chosen a value in every chooser shown
AllOfferedSelected ==
  \A k \in OfferedKeys : SelectedOptions(selectedColor, selectValues)[k] # None

\* C12: a submit made while a chooser shown by the popup has no value selected
\* sends no POST /cart/add.js and starts no handler chain, and shows the
\* variant error; so a primary POST is sent only with every chooser set.
C12_NoRequestWithUnselectedOption ==
  [][ ( /\ lastOp'.op \in {"submit", "submitRejected"}
        /\ ~AllOfferedSelected )
      => ( /\ lastOp'.op = "submitRejected"
           /\ lastOp'.sent = NoBody
           /\ flows' = flows
           /\ variantError' ) ]_vars

====
